---------------------------- MODULE Spec2Model ----------------------------
(***************************************************************************)
(* Model of the synthetic query generation pipeline of the recipe chatbot  *)
(* repository (homeworks/hw2/gen_mixed_synth_queries.py): the structured   *)
(* call wrapper call_llm with its retry loop, the dimension tuple          *)
(* generator with its deduplication, the regular fan-out stage on a        *)
(* bounded worker pool, the ambiguous and adversarial generators, and the  *)
(* orchestrator main with merge, shuffle and persistence.                  *)
(***************************************************************************)
EXTENDS Integers, Sequences, FiniteSets, TLC

(***************************************************************************)
(* Bounds of the model.                                                    *)
(***************************************************************************)
\* longest sequence of tuples the provider returns for the tuple request
MaxTupleResp == 3
\* most queries the provider returns for one dimension tuple
MaxQ == 1
\* most queries the provider returns for the ambiguous request
MaxAmb == 1
\* most queries the provider returns for the adversarial request
MaxAdv == 1
\* most records one run merges: random.shuffle has MaxRecords! outcomes, so
\* the provider's answers to the ambiguous and the adversarial request are
\* drawn among those that keep the merged list this short
MaxRecords == 4
\* most queries the provider returns for one request of a run that is
\* followed for its record ids
MaxIds == 2
\* the tasks submitted beyond the size of the worker pool
MaxExtra == 1
\* a long tuple response: its length beyond the number of tuples asked for,
\* and the number of its entries that repeat an earlier one
MaxOver == 2
MaxRepeat == 1
\* the most queries one response holds in the fan-out specification
MaxK == 2

(***************************************************************************)
(* Program constants.                                                      *)
(***************************************************************************)
max_retries == 3
MAX_WORKERS == 5
\* the number of tuples the prompt asks the model for
NUM_TUPLES_TO_GENERATE == 10
\* minimum width of the sequence number in an id: the format spec ":03d"
IdWidth == 3

(***************************************************************************)
(* DimensionTuple: a record of eight string fields, in declaration order.  *)
(***************************************************************************)
FieldNames ==
    << "DietaryNeedsOrRestrictions", "AvailableIngredientsFocus",
       "CuisinePreference", "SkillLevelEffort", "TimeAvailability",
       "QueryStyleAndDetail", "UserContextOrScenario",
       "UserAbilityOrAccessibility" >>

\* the two example tuples of the generation prompt: the values the provider
\* draws its tuples from
TupleVegan ==
    [ DietaryNeedsOrRestrictions |-> "vegan",
      AvailableIngredientsFocus  |-> "must_use_specific: chickpeas, spinach",
      CuisinePreference          |-> "specific_cuisine: indian",
      SkillLevelEffort           |-> "beginner_easy_low_effort",
      TimeAvailability           |-> "quick_under_30_mins",
      QueryStyleAndDetail        |-> "natural_question_moderate_detail",
      UserContextOrScenario      |-> "rushed_time_pressure",
      UserAbilityOrAccessibility |-> "total_beginner" ]

TupleGlutenFree ==
    [ DietaryNeedsOrRestrictions |-> "gluten_free",
      AvailableIngredientsFocus  |-> "general_pantry",
      CuisinePreference          |-> "any_cuisine",
      SkillLevelEffort           |-> "intermediate_moderate_effort",
      TimeAvailability           |-> "moderate_30_to_60_mins",
      QueryStyleAndDetail        |-> "detailed_request_high_detail",
      UserContextOrScenario      |-> "emotional_support_needed",
      UserAbilityOrAccessibility |-> "neurodivergent" ]

DimensionTuple == {TupleVegan, TupleGlutenFree}

\* BaseModel.model_dump_json: the fields rendered one by one, in declaration
\* order, as "name": "value" pairs
model_dump_json(tup) ==
    [k \in 1..Len(FieldNames) |-> <<FieldNames[k], tup[FieldNames[k]]>>]

\* Optional[DimensionTuple]: None is the empty sequence, a tuple t is <<t>>
None == <<>>
Some(t) == <<t>>

\* the most tuples a run can hold after deduplication
MaxTasks == Cardinality(DimensionTuple)

(***************************************************************************)
(* Calls of the structured call wrapper: one for the tuples, one per       *)
(* regular task, one for the ambiguous and one for the adversarial stage.  *)
(***************************************************************************)
TupCall == <<"tuples", 0>>
AmbCall == <<"ambiguous", 0>>
AdvCall == <<"adversarial", 0>>
TaskCall(i) == <<"regular", i>>
Tasks == 1..MaxTasks
CallIds == {TupCall, AmbCall, AdvCall} \cup {TaskCall(i) : i \in Tasks}

\* the j-th query string of the provider's response to call c
QueryText(c, j) == <<c[1], c[2], j>>

\* the entries of the list q
Items(q) == {q[k] : k \in 1..Len(q)}

RECURSIVE SeqsUpTo(_, _)
SeqsUpTo(S, n) ==
    IF n = 0 THEN {<<>>}
    ELSE LET shorter == SeqsUpTo(S, n - 1)
         IN  shorter \cup {Append(s, x) : s \in {t \in shorter : Len(t) = n - 1}, x \in S}

MaxItems(c) ==
    CASE c[1] = "regular"     -> MaxQ
      [] c[1] = "ambiguous"   -> MaxAmb
      [] c[1] = "adversarial" -> MaxAdv
      [] OTHER                -> MaxTupleResp

\* the payloads that decode into the schema the call asks for: a
\* DimensionTuplesList for the tuple call, a QueriesList for the others
ValidPayloads(c) ==
    IF c = TupCall
    THEN SeqsUpTo(DimensionTuple, MaxTupleResp)
    ELSE {[j \in 1..n |-> QueryText(c, j)] : n \in 0..MaxItems(c)}

\* what one invocation of completion() can do: raise, return a body that
\* does not decode into the schema, or return one that does
ProviderResponses(c) ==
    {[kind |-> "raise", payload |-> <<>>], [kind |-> "malformed", payload |-> <<>>]}
        \cup {[kind |-> "valid", payload |-> p] : p \in ValidPayloads(c)}

\* the exception one attempt ends with: completion's own, or the one
\* json.loads / the schema constructor raises on the body
ExceptionOf(resp) ==
    IF resp.kind = "raise" THEN "ProviderError" ELSE "DecodeError"

NoException == "none"

(***************************************************************************)
(* call_llm: the frame of one call.  attempt is the loop variable, calls   *)
(* counts the invocations of completion(), sleeps the time.sleep(1) calls, *)
(* outs logs what the provider answered on each invocation.                *)
(***************************************************************************)
IdleFrame ==
    [st |-> "idle", attempt |-> 0, calls |-> 0, sleeps |-> 0,
     outs |-> <<>>, val |-> <<>>, exc |-> NoException]

EnteredFrame == [IdleFrame EXCEPT !.st = "ready"]

\* a variant that gives up one attempt early
IsLastAttemptEarly(attempt) == attempt = max_retries - 2

IsLastAttempt(attempt) == attempt = max_retries - 1

\* a variant that takes a response holding no item for a failure
DecodesNonEmpty(resp) == resp.kind = "valid" /\ resp.payload # <<>>

\* the try block completes: completion() returned and its body decodes
\* into the response format
Decodes(resp) == resp.kind = "valid"

\* a variant that sleeps after every failed attempt, the last included
call_llm_iter_sleeping(fr, resp) ==
    LET invoked == [fr EXCEPT !.calls = @ + 1, !.outs = Append(@, resp)]
    IN  IF Decodes(resp)
        THEN [invoked EXCEPT !.st = "returned", !.val = resp.payload]
        ELSE IF IsLastAttempt(fr.attempt)
             THEN [invoked EXCEPT !.st = "raised", !.exc = ExceptionOf(resp),
                                  !.sleeps = @ + 1]
             ELSE [invoked EXCEPT !.st = "sleeping", !.sleeps = @ + 1]

\* one iteration of the retry loop, given the provider's answer
call_llm_iter(fr, resp) ==
    LET invoked == [fr EXCEPT !.calls = @ + 1, !.outs = Append(@, resp)]
    IN  IF Decodes(resp)
        THEN [invoked EXCEPT !.st = "returned", !.val = resp.payload]
        ELSE IF IsLastAttempt(fr.attempt)
             THEN [invoked EXCEPT !.st = "raised", !.exc = ExceptionOf(resp)]
             ELSE [invoked EXCEPT !.st = "sleeping", !.sleeps = @ + 1]

Finished(fr) == fr.st \in {"returned", "raised"}


(***************************************************************************)
(* generate_dimension_tuples: the deduplication loop over the response.    *)
(***************************************************************************)
\* a variant that never finds a serialization in the seen set
NotSeenAlways(tuple_str, seen) == TRUE

NotSeen(tuple_str, seen) == tuple_str \notin seen

RECURSIVE DedupLoop(_, _, _)
DedupLoop(all_tuples, seen, unique_tuples) ==
    IF all_tuples = <<>> THEN unique_tuples
    ELSE LET tup == Head(all_tuples)
             tuple_str == model_dump_json(tup)
         IN  IF NotSeen(tuple_str, seen)
             THEN DedupLoop(Tail(all_tuples), seen \cup {tuple_str},
                            Append(unique_tuples, tup))
             ELSE DedupLoop(Tail(all_tuples), seen, unique_tuples)

\* How a function ends: it returns a value, or an exception leaves it.
Returns(v) == [raised |-> FALSE, value |-> v]
Raises == [raised |-> TRUE, value |-> <<>>]

\* generate_dimension_tuples, given the finished call: the deduplicated
\* tuples, or [] from the except clause
\* a variant that cuts the result down to the number asked for
generate_dimension_tuples_truncating(fr) ==
    IF fr.st = "returned"
    THEN LET unique_tuples == DedupLoop(fr.val, {}, <<>>)
         IN  Returns(SubSeq(unique_tuples, 1,
                            IF Len(unique_tuples) < NUM_TUPLES_TO_GENERATE
                            THEN Len(unique_tuples) ELSE NUM_TUPLES_TO_GENERATE))
    ELSE Returns(<<>>)

generate_dimension_tuples(fr) ==
    IF fr.st = "returned" THEN Returns(DedupLoop(fr.val, {}, <<>>))
    ELSE Returns(<<>>)

\* generate_queries_for_tuple, generate_ambiguous_queries and
\* generate_adversarial_queries, given the finished call: the response's
\* queries, or [] from the except clause
\* a variant whose except clause returns the error as if it were a query
generate_queries_for_tuple_error_text(fr) ==
    IF fr.st = "returned" THEN Returns(fr.val)
    ELSE Returns(<< <<"error", 0, 0>> >>)

generate_queries_for_tuple(fr) ==
    IF fr.st = "returned" THEN Returns(fr.val) ELSE Returns(<<>>)

\* a variant without the except clause
generate_ambiguous_queries_uncaught(fr) ==
    IF fr.st = "returned" THEN Returns(fr.val) ELSE Raises

generate_ambiguous_queries(fr) ==
    IF fr.st = "returned" THEN Returns(fr.val) ELSE Returns(<<>>)

generate_adversarial_queries(fr) ==
    IF fr.st = "returned" THEN Returns(fr.val) ELSE Returns(<<>>)

(***************************************************************************)
(* QueryWithDimensions records and their ids.                              *)
(***************************************************************************)
RECURSIVE DecimalDigits(_)
DecimalDigits(n) ==
    IF n < 10 THEN <<n>> ELSE Append(DecimalDigits(n \div 10), n % 10)

\* format(n, "03d"): the decimal digits, zero-padded on the left to width 3
ZeroPad(n) ==
    LET d == DecimalDigits(n)
    IN  IF Len(d) >= IdWidth THEN d
        ELSE [k \in 1..(IdWidth - Len(d)) |-> 0] \o d

SynId(n) == <<"SYN">> \o ZeroPad(n)

\* a variant that numbers every ambiguous record 1
AmbIdUnnumbered(n) == <<"AMB">> \o ZeroPad(1)

AmbId(n) == <<"AMB">> \o ZeroPad(n)
AdvId(n) == <<"ADV">> \o ZeroPad(n)

QueryWithDimensions(id, query, dimension_tuple, query_type) ==
    [id |-> id, query |-> query, dimension_tuple |-> dimension_tuple,
     query_type |-> query_type, is_realistic_and_kept |-> 1,
     notes_for_filtering |-> ""]

\* a variant that never advances the counter
NextQueryIdStuck(query_id) == query_id

NextQueryId(query_id) == query_id + 1

\* a variant that leaves the tuple out of the record
RegularRecordNoTuple(qid, query, dim_tuple) ==
    QueryWithDimensions(SynId(qid), query, None, "regular")

RegularRecord(qid, query, dim_tuple) ==
    QueryWithDimensions(SynId(qid), query, Some(dim_tuple), "regular")

\* a variant that takes the tuple the submitting loop visited last
TupleAtLast(tuples, i) == tuples[Len(tuples)]

\* dimension_tuples[tuple_idx], tuple_idx being the task's 0-based index
TupleAt(tuples, i) == tuples[i]

\* a variant that advances the counter once more after a future's last query
RECURSIVE AppendRegularSkipping(_, _, _, _)
AppendRegularSkipping(all, qid, queries, dim_tuple) ==
    IF queries = <<>> THEN [all_queries |-> all, query_id |-> qid + 1]
    ELSE AppendRegularSkipping(
             Append(all, RegularRecord(qid, Head(queries), dim_tuple)),
             NextQueryId(qid), Tail(queries), dim_tuple)

\* the collecting loop body for one completed future: one record per query,
\* each taking the counter's value and advancing it
RECURSIVE AppendRegular(_, _, _, _)
AppendRegular(all, qid, queries, dim_tuple) ==
    IF queries = <<>> THEN [all_queries |-> all, query_id |-> qid]
    ELSE AppendRegular(
             Append(all, RegularRecord(qid, Head(queries), dim_tuple)),
             NextQueryId(qid), Tail(queries), dim_tuple)

AmbiguousRecords(raw) ==
    [k \in 1..Len(raw) |->
        QueryWithDimensions(AmbId(k), raw[k], None, "ambiguous")]

\* a variant copied from the ambiguous stage with its tag left in place
AdversarialRecordsAsAmbiguous(raw) ==
    [k \in 1..Len(raw) |->
        QueryWithDimensions(AdvId(k), raw[k], None, "ambiguous")]

AdversarialRecords(raw) ==
    [k \in 1..Len(raw) |->
        QueryWithDimensions(AdvId(k), raw[k], None, "adversarial")]

(***************************************************************************)
(* random.shuffle: for i from the last index down to the second, swap      *)
(* x[i] with x[j] for a random j at or below i.                            *)
(***************************************************************************)
\* a variant that copies x[j] to position i without moving x[i] to j
SwapOverwrite(x, i, j) == [x EXCEPT ![i] = x[j]]

Swap(x, i, j) == [x EXCEPT ![i] = x[j], ![j] = x[i]]

\* the positions randbelow(n) offers for a swap with position n: every
\* position from the first to n itself
RandBelow(n) == 1..n

(***************************************************************************)
(* Persistence.                                                            *)
(***************************************************************************)
\* get_output_csv_path: base name, timestamp and extension under the
\* script's directory; a run computes it once
OutputPath == "synthetic_queries_for_analysis_<timestamp>.csv"

\* a variant without the empty-list guard
NothingToSaveNever(queries) == FALSE

NothingToSave(queries) == queries = <<>>

CsvRow(q) ==
    [id |-> q.id, query |-> q.query,
     dimension_tuple_json |->
        IF q.dimension_tuple # None
        THEN model_dump_json(q.dimension_tuple[1]) ELSE None,
     query_type |-> q.query_type,
     is_realistic_and_kept |-> q.is_realistic_and_kept,
     notes_for_filtering |-> q.notes_for_filtering]

\* the file system after save_queries_to_csv(queries, path)
save_queries_to_csv(fs, queries, path) ==
    IF NothingToSave(queries) THEN fs
    ELSE {f \in fs : f.path # path}
            \cup {[path |-> path,
                   rows |-> [k \in 1..Len(queries) |-> CsvRow(queries[k])]]}

(***************************************************************************)
(* Standard output.  A printed line is its format string and the numbers   *)
(* formatted into it; the text of an exception and the elapsed time are    *)
(* left out of the line.                                                   *)
(***************************************************************************)
Line(text, args) == [text |-> text, args |-> args]
MsgNoCredential == Line("Error: OPENAI_API_KEY environment variable not set.", <<>>)
MsgStep1 == Line("Step 1: Generating dimension tuples...", <<>>)
MsgTuplesError == Line("Error generating dimension tuples: {e}", <<>>)
MsgNoTuples == Line("Failed to generate dimension tuples. Exiting.", <<>>)
MsgTuples(n) == Line("Generated {} dimension tuples.", <<n>>)
MsgStep2 == Line("Step 2: Generating regular queries...", <<>>)
MsgFanOut(n) == Line("Generating {NUM_QUERIES_PER_TUPLE} queries each for {} dimension tuples...", <<n>>)
MsgTaskError == Line("Error generating queries for tuple: {e}", <<>>)
MsgTupleException(i) == Line("Tuple {} generated an exception: {e}", <<i>>)
MsgStep3 == Line("Step 3: Generating ambiguous queries...", <<>>)
MsgAmbiguousError == Line("Error generating ambiguous queries: {e}", <<>>)
MsgStep4 == Line("Step 4: Generating adversarial queries...", <<>>)
MsgAdversarialError == Line("Error generating adversarial queries: {e}", <<>>)
MsgNothingToSave == Line("No queries to save.", <<>>)
MsgSaved(n) == Line("Saved {} queries to {}", <<n>>)
MsgCompleted == Line("Query generation completed successfully in {} seconds.", <<>>)
MsgSummary(n, r, a, d) ==
    Line("Generated {} queries ({} regular, {} ambiguous, {} adversarial).",
         <<n, r, a, d>>)

\* what the except clause of a generator prints, given the finished call
ExceptReport(fr, msg) == IF fr.st = "raised" THEN <<msg>> ELSE <<>>
\* what save_queries_to_csv prints
SaveReport(queries) ==
    IF NothingToSave(queries) THEN <<MsgNothingToSave>>
    ELSE <<MsgSaved(Len(queries))>>

(***************************************************************************)
(* State.                                                                  *)
(***************************************************************************)
VARIABLES
    pc,                  \* where main is
    has_key,             \* "OPENAI_API_KEY" in os.environ
    call,                \* the call_llm frame of every call
    outcome,             \* per call: how it ended and how many items it gave
    dimension_tuples,    \* main: the deduplicated tuples
    task,                \* per fan-out task: none, queued, running, done, collected
    future,              \* per fan-out task: the result its future holds
    all_queries,         \* generate_queries_parallel: the collected records
    query_id,            \* generate_queries_parallel: the id counter
    regular_queries,     \* main
    ambiguous_queries,   \* main
    adversarial_queries, \* main
    shuffled,            \* main: all_queries after random.shuffle
    files,               \* the files written
    save_calls,          \* invocations of save_queries_to_csv
    mkdir_calls,         \* invocations of get_output_csv_path (mkdir)
    stdout,              \* the lines printed so far
    messages,            \* get_agent_response: the caller's list
    current_messages,    \* get_agent_response: the list sent to the provider
    updated_messages,    \* get_agent_response: the list returned
    agent_pc,            \* where get_agent_response is
    same_object,         \* current_messages is the list object messages
    meter                \* observer: the calls of call_llm and of completion

vars == << pc, has_key, call, outcome, dimension_tuples, task, future,
           all_queries, query_id, regular_queries, ambiguous_queries,
           adversarial_queries, shuffled, files, save_calls, mkdir_calls,
           stdout, messages, current_messages, updated_messages, agent_pc,
           same_object, meter >>

\* the variables of the query generator and those of the agent wrapper
main_vars == << pc, has_key, call, outcome, dimension_tuples, task, future,
                all_queries, query_id, regular_queries, ambiguous_queries,
                adversarial_queries, shuffled, files, save_calls, mkdir_calls,
                stdout, meter >>
agent_vars == << messages, current_messages, updated_messages, agent_pc,
                same_object >>

\* get_agent_response is not called
AgentIdle ==
    /\ messages = <<>>
    /\ current_messages = <<>>
    /\ updated_messages = <<>>
    /\ agent_pc = "idle"
    /\ same_object = FALSE

\* The observer counts the invocations of call_llm and of completion().  It
\* is no state of the program; a specification switches it on in its initial
\* state, or leaves it off, and then it never changes.
Unmetered == [on |-> FALSE, wrapper_calls |-> 0, provider_calls |-> 0]
Metered == [on |-> TRUE, wrapper_calls |-> 0, provider_calls |-> 0]
\* call_llm is entered
CountWrapper(m) == IF m.on THEN [m EXCEPT !.wrapper_calls = @ + 1] ELSE m
\* completion() is invoked
CountProvider(m) == IF m.on THEN [m EXCEPT !.provider_calls = @ + 1] ELSE m

Pending == [st |-> "pending", n |-> 0]
OutcomeOf(fr) ==
    IF fr.st = "returned" THEN [st |-> "ok", n |-> Len(fr.val)]
    ELSE [st |-> "failed", n |-> 0]

Init ==
    /\ pc = "start"
    /\ has_key \in BOOLEAN
    /\ call = [c \in CallIds |-> IdleFrame]
    /\ outcome = [c \in CallIds |-> Pending]
    /\ dimension_tuples = <<>>
    /\ task = [i \in Tasks |-> "none"]
    /\ future = [i \in Tasks |-> Returns(<<>>)]
    /\ all_queries = <<>>
    /\ query_id = 1
    /\ regular_queries = <<>>
    /\ ambiguous_queries = <<>>
    /\ adversarial_queries = <<>>
    /\ shuffled = <<>>
    /\ files = {}
    /\ save_calls = 0
    /\ mkdir_calls = 0
    /\ stdout = <<>>
    /\ AgentIdle
    /\ meter = Unmetered


(***************************************************************************)
(* main, up to the tuple stage.                                            *)
(***************************************************************************)
\* a variant of the credential test that never finds the key missing
KeyMissingNever(key_in_environ) == FALSE

KeyMissing(key_in_environ) == ~key_in_environ

\* main's credential test: without the key it prints the error and returns;
\* with it, step 1 enters generate_dimension_tuples, which submits call_llm
CheckCredential ==
    /\ pc = "start"
    /\ IF KeyMissing(has_key)
       THEN /\ pc' = "no_credential"
            /\ stdout' = Append(stdout, MsgNoCredential)
            /\ UNCHANGED << call, meter >>
       ELSE /\ pc' = "step1"
            /\ stdout' = Append(stdout, MsgStep1)
            /\ call' = [call EXCEPT ![TupCall] = EnteredFrame]
            /\ meter' = CountWrapper(meter)
    /\ UNCHANGED << has_key, outcome, dimension_tuples, task, future,
                    all_queries, query_id, regular_queries,
                    ambiguous_queries, adversarial_queries, shuffled, files,
                    save_calls, mkdir_calls >>
    /\ UNCHANGED agent_vars

\* a fan-out call runs on the worker that holds its task
MayRun(c) == c[1] = "regular" => task[c[2]] = "running"

\* the records main holds when call c is answered, and the answers that
\* keep the run within MaxRecords
RecordsBefore(c) ==
    CASE c = AmbCall -> Len(regular_queries)
      [] c = AdvCall -> Len(regular_queries) + Len(ambiguous_queries)
      [] OTHER       -> 0

Fits(c, resp) ==
    c \in {AmbCall, AdvCall} =>
        RecordsBefore(c) + Len(resp.payload) <= MaxRecords

\* one iteration of call_llm's loop: completion() is invoked and answers
Attempt(c) ==
    /\ call[c].st = "ready"
    /\ MayRun(c)
    /\ \E resp \in ProviderResponses(c) :
          /\ Fits(c, resp)
          /\ call' = [call EXCEPT ![c] = call_llm_iter(call[c], resp)]
    /\ UNCHANGED << pc, has_key, outcome, dimension_tuples, task, future,
                    all_queries, query_id, regular_queries,
                    ambiguous_queries, adversarial_queries, shuffled, files,
                    save_calls, mkdir_calls,
                    stdout >>
    /\ UNCHANGED agent_vars
    /\ meter' = CountProvider(meter)

\* a variant of the loop that repeats the same iteration
NextAttemptSame(attempt) == attempt

\* for attempt in range(max_retries): the next value of the loop variable
NextAttempt(attempt) == attempt + 1

\* time.sleep(1) returns and the loop takes its next iteration
Wake(c) ==
    /\ call[c].st = "sleeping"
    /\ call' = [call EXCEPT ![c].st = "ready", ![c].attempt = NextAttempt(@)]
    /\ UNCHANGED << pc, has_key, outcome, dimension_tuples, task, future,
                    all_queries, query_id, regular_queries,
                    ambiguous_queries, adversarial_queries, shuffled, files,
                    save_calls, mkdir_calls,
                    stdout >>
    /\ UNCHANGED agent_vars
    /\ UNCHANGED meter

\* generate_dimension_tuples returns: the deduplicated tuples, or [] when
\* future.result() raised
GenerateDimensionTuplesReturn ==
    /\ pc = "step1"
    /\ Finished(call[TupCall])
    /\ LET r == generate_dimension_tuples(call[TupCall])
       IN  /\ dimension_tuples' = r.value
           /\ pc' = IF r.raised THEN "crashed" ELSE "step1_done"
    /\ outcome' = [outcome EXCEPT ![TupCall] = OutcomeOf(call[TupCall])]
    /\ stdout' = stdout \o ExceptReport(call[TupCall], MsgTuplesError)
    /\ UNCHANGED << has_key, call, task, future, all_queries, query_id,
                    regular_queries, ambiguous_queries, adversarial_queries,
                    shuffled, files, save_calls, mkdir_calls >>
    /\ UNCHANGED agent_vars
    /\ UNCHANGED meter

\* a variant that only recognises a missing value, not an empty list
NoTuplesIsNone(tuples) == FALSE

NoTuples(tuples) == tuples = <<>>

\* main tests the tuples: none, it prints the failure and returns; some, it
\* enters generate_queries_parallel, which submits one task per tuple
AfterTuples ==
    /\ pc = "step1_done"
    /\ call' = [call EXCEPT ![TupCall] = IdleFrame]
    /\ IF NoTuples(dimension_tuples)
       THEN /\ pc' = "aborted"
            /\ stdout' = Append(stdout, MsgNoTuples)
            /\ UNCHANGED << task, all_queries, query_id >>
       ELSE /\ pc' = "step2"
            /\ stdout' = stdout \o << MsgTuples(Len(dimension_tuples)), MsgStep2,
                                      MsgFanOut(Len(dimension_tuples)) >>
            /\ task' = [i \in Tasks |->
                          IF i <= Len(dimension_tuples) THEN "queued" ELSE "none"]
            /\ all_queries' = <<>>
            /\ query_id' = 1
    /\ UNCHANGED << has_key, outcome, dimension_tuples, future,
                    regular_queries, ambiguous_queries, adversarial_queries,
                    shuffled, files, save_calls, mkdir_calls >>
    /\ UNCHANGED agent_vars
    /\ UNCHANGED meter

(***************************************************************************)
(* The regular fan-out stage.                                              *)
(***************************************************************************)
Running == {i \in DOMAIN task : task[i] = "running"}

\* the workers' queue is first in, first out: when a worker takes task i,
\* every earlier task has been taken, and each one that has not returned
\* holds a worker, whether it has entered generate_queries_for_tuple or its
\* worker was preempted before the call
Holding(i) ==
    {j \in DOMAIN task : j < i /\ task[j] \in {"queued", "running"}}

\* a variant of the pool that starts a thread for every submitted task
PoolHasFreeWorkerAlways(running) == TRUE

\* ThreadPoolExecutor(max_workers=MAX_WORKERS) has a worker that holds no task
PoolHasFreeWorker(running) == Cardinality(running) < MAX_WORKERS

\* the worker that took task i enters generate_queries_for_tuple, which
\* enters call_llm; workers that took earlier tasks may enter later
StartTask(i) ==
    /\ pc = "step2"
    /\ task[i] = "queued"
    /\ PoolHasFreeWorker(Holding(i))
    /\ task' = [task EXCEPT ![i] = "running"]
    /\ call' = [call EXCEPT ![TaskCall(i)] = EnteredFrame]
    /\ UNCHANGED << pc, has_key, outcome, dimension_tuples, future,
                    all_queries, query_id, regular_queries,
                    ambiguous_queries, adversarial_queries, shuffled, files,
                    save_calls, mkdir_calls,
                    stdout >>
    /\ UNCHANGED agent_vars
    /\ meter' = CountWrapper(meter)

\* generate_queries_for_tuple returns: the future is done and the worker free
TaskReturn(i) ==
    /\ task[i] = "running"
    /\ Finished(call[TaskCall(i)])
    /\ future' = [future EXCEPT ![i] = generate_queries_for_tuple(call[TaskCall(i)])]
    /\ outcome' = [outcome EXCEPT ![TaskCall(i)] = OutcomeOf(call[TaskCall(i)])]
    /\ stdout' = stdout \o ExceptReport(call[TaskCall(i)], MsgTaskError)
    /\ task' = [task EXCEPT ![i] = "done"]
    /\ call' = [call EXCEPT ![TaskCall(i)] = IdleFrame]
    /\ UNCHANGED << pc, has_key, dimension_tuples, all_queries, query_id,
                    regular_queries, ambiguous_queries, adversarial_queries,
                    shuffled, files, save_calls, mkdir_calls >>
    /\ UNCHANGED agent_vars
    /\ UNCHANGED meter

\* the collecting loop takes a completed future: future.result() gives the
\* queries and the loop builds their records, or raises and the except
\* clause reports the tuple
Collect(i) ==
    /\ pc = "step2"
    /\ task[i] = "done"
    /\ IF future[i].raised
       THEN /\ stdout' = Append(stdout, MsgTupleException(i))
            /\ UNCHANGED << all_queries, query_id >>
       ELSE LET r == AppendRegular(all_queries, query_id, future[i].value,
                                   TupleAt(dimension_tuples, i))
            IN  /\ all_queries' = r.all_queries
                /\ query_id' = r.query_id
                /\ UNCHANGED stdout
    /\ task' = [task EXCEPT ![i] = "collected"]
    /\ UNCHANGED << pc, has_key, call, outcome, dimension_tuples, future,
                    regular_queries, ambiguous_queries, adversarial_queries,
                    shuffled, files, save_calls, mkdir_calls >>
    /\ UNCHANGED agent_vars
    /\ UNCHANGED meter

\* a variant of the collecting loop that ends with the first result
AsCompletedExhaustedEarly(t) == \E i \in DOMAIN t : t[i] = "collected"

\* as_completed has yielded every submitted future and its result has been
\* taken, so the collecting loop and the pool's with block end
AsCompletedExhausted(t) == \A i \in DOMAIN t : t[i] \in {"none", "collected"}

\* every future collected: generate_queries_parallel returns, and step 3
\* enters generate_ambiguous_queries
RegularReturn ==
    /\ pc = "step2"
    /\ AsCompletedExhausted(task)
    /\ regular_queries' = all_queries
    /\ stdout' = Append(stdout, MsgStep3)
    /\ pc' = "step3"
    /\ call' = [call EXCEPT ![AmbCall] = EnteredFrame]
    /\ UNCHANGED << has_key, outcome, dimension_tuples, task, future,
                    all_queries, query_id, ambiguous_queries,
                    adversarial_queries, shuffled, files, save_calls,
                    mkdir_calls >>
    /\ UNCHANGED agent_vars
    /\ meter' = CountWrapper(meter)

(***************************************************************************)
(* The ambiguous and adversarial stages, merge, shuffle and persistence.   *)
(***************************************************************************)
\* generate_ambiguous_queries returns, main builds the records, and step 4
\* enters generate_adversarial_queries
AmbiguousReturn ==
    /\ pc = "step3"
    /\ Finished(call[AmbCall])
    /\ LET r == generate_ambiguous_queries(call[AmbCall])
       IN  IF r.raised
           THEN /\ pc' = "crashed"
                /\ call' = [call EXCEPT ![AmbCall] = IdleFrame]
                /\ UNCHANGED << ambiguous_queries, stdout, meter >>
           ELSE /\ pc' = "step4"
                /\ stdout' = stdout \o ExceptReport(call[AmbCall], MsgAmbiguousError)
                                     \o << MsgStep4 >>
                /\ meter' = CountWrapper(meter)
                /\ call' = [call EXCEPT ![AmbCall] = IdleFrame,
                                        ![AdvCall] = EnteredFrame]
                /\ ambiguous_queries' = AmbiguousRecords(r.value)
    /\ outcome' = [outcome EXCEPT ![AmbCall] = OutcomeOf(call[AmbCall])]
    /\ UNCHANGED << has_key, dimension_tuples, task, future, all_queries,
                    query_id, regular_queries, adversarial_queries, shuffled,
                    files, save_calls, mkdir_calls >>
    /\ UNCHANGED agent_vars

\* generate_adversarial_queries returns and main builds the records
AdversarialReturn ==
    /\ pc = "step4"
    /\ Finished(call[AdvCall])
    /\ LET r == generate_adversarial_queries(call[AdvCall])
       IN  IF r.raised
           THEN /\ pc' = "crashed"
                /\ UNCHANGED << adversarial_queries, stdout >>
           ELSE /\ pc' = "merge"
                /\ stdout' = stdout \o ExceptReport(call[AdvCall], MsgAdversarialError)
                /\ adversarial_queries' = AdversarialRecords(r.value)
    /\ outcome' = [outcome EXCEPT ![AdvCall] = OutcomeOf(call[AdvCall])]
    /\ call' = [call EXCEPT ![AdvCall] = IdleFrame]
    /\ UNCHANGED << has_key, dimension_tuples, task, future, all_queries,
                    query_id, regular_queries, ambiguous_queries, shuffled,
                    files, save_calls, mkdir_calls >>
    /\ UNCHANGED agent_vars
    /\ UNCHANGED meter

\* random.shuffle's loop from index i down, then the call of
\* save_queries_to_csv on the shuffled list and main's closing lines
RECURSIVE ShuffleThenSave(_, _)
ShuffleThenSave(x, i) ==
    IF i < 2
    THEN /\ shuffled' = x
         /\ files' = save_queries_to_csv(files, x, OutputPath)
         /\ stdout' = stdout \o SaveReport(x)
                              \o << MsgCompleted,
                                    MsgSummary(Len(x), Len(regular_queries),
                                               Len(ambiguous_queries),
                                               Len(adversarial_queries)) >>
    ELSE \E j \in RandBelow(i) : ShuffleThenSave(Swap(x, i, j), i - 1)

\* main concatenates the three lists, shuffles, computes the output path
\* and calls save_queries_to_csv
MergeShuffleSave ==
    /\ pc = "merge"
    /\ ShuffleThenSave(regular_queries \o ambiguous_queries \o adversarial_queries,
                       Len(regular_queries) + Len(ambiguous_queries)
                           + Len(adversarial_queries))
    /\ mkdir_calls' = mkdir_calls + 1
    /\ save_calls' = save_calls + 1
    /\ pc' = "done"
    /\ UNCHANGED << has_key, call, outcome, dimension_tuples, task, future,
                    all_queries, query_id, regular_queries,
                    ambiguous_queries, adversarial_queries >>
    /\ UNCHANGED agent_vars
    /\ UNCHANGED meter

Next ==
    \/ CheckCredential
    \/ \E c \in CallIds : Attempt(c)
    \/ \E c \in CallIds : Wake(c)
    \/ GenerateDimensionTuplesReturn
    \/ AfterTuples
    \/ \E i \in Tasks : StartTask(i)
    \/ \E i \in Tasks : TaskReturn(i)
    \/ \E i \in Tasks : Collect(i)
    \/ RegularReturn
    \/ AmbiguousReturn
    \/ AdversarialReturn
    \/ MergeShuffleSave

Spec == Init /\ [][Next]_vars

(***************************************************************************)
(* generate_queries_parallel on a list of more tuples than the pool has    *)
(* workers.  The specification starts where the dictionary comprehension   *)
(* has submitted every task, and ends when the collecting loop has taken   *)
(* every future.  The provider may fail the first task's call on any       *)
(* attempt and answers every other call at once with an empty list.        *)
(***************************************************************************)
PoolSize == MAX_WORKERS + MaxExtra
PoolTasks == 1..PoolSize
PoolTuples == [i \in PoolTasks |-> IF i % 2 = 1 THEN TupleVegan ELSE TupleGlutenFree]
PoolCallIds == {TaskCall(i) : i \in PoolTasks}

PoolResponses(c) ==
    IF c = TaskCall(1)
    THEN {[kind |-> "raise", payload |-> <<>>],
          [kind |-> "valid", payload |-> << QueryText(c, 1) >>]}
    ELSE {[kind |-> "valid", payload |-> <<>>]}

PoolInit ==
    /\ pc = "step2"
    /\ has_key = TRUE
    /\ call = [c \in PoolCallIds |-> IdleFrame]
    /\ outcome = [c \in PoolCallIds |-> Pending]
    /\ dimension_tuples = PoolTuples
    /\ task = [i \in PoolTasks |-> "queued"]
    /\ future = [i \in PoolTasks |-> Returns(<<>>)]
    /\ all_queries = <<>>
    /\ query_id = 1
    /\ regular_queries = <<>>
    /\ ambiguous_queries = <<>>
    /\ adversarial_queries = <<>>
    /\ shuffled = <<>>
    /\ files = {}
    /\ save_calls = 0
    /\ mkdir_calls = 0
    /\ stdout = << MsgFanOut(PoolSize) >>
    /\ AgentIdle
    /\ meter = Unmetered

\* one iteration of call_llm's loop in a worker of the pool
PoolAttempt(c) ==
    /\ call[c].st = "ready"
    /\ MayRun(c)
    /\ \E resp \in PoolResponses(c) :
          call' = [call EXCEPT ![c] = call_llm_iter(call[c], resp)]
    /\ UNCHANGED << pc, has_key, outcome, dimension_tuples, task, future,
                    all_queries, query_id, regular_queries,
                    ambiguous_queries, adversarial_queries, shuffled, files,
                    save_calls, mkdir_calls, stdout >>
    /\ UNCHANGED agent_vars
    /\ meter' = CountProvider(meter)

PoolNext ==
    \/ \E i \in PoolTasks : StartTask(i)
    \/ \E c \in PoolCallIds : PoolAttempt(c)
    \/ \E c \in PoolCallIds : Wake(c)
    \/ \E i \in PoolTasks : TaskReturn(i)
    \/ \E i \in PoolTasks : Collect(i)

\* the threads of the pool and the collecting thread are scheduled by the
\* operating system, the provider answers every invocation and a sleep ends:
\* a step that stays possible is taken
PoolSpec == PoolInit /\ [][PoolNext]_vars /\ WF_vars(PoolNext)


(***************************************************************************)
(* get_agent_response (backend/utils.py).  A text is a sequence of         *)
(* characters; a message is a record of a role and a text.                 *)
(***************************************************************************)
\* the longest input list and the longest raw reply
MaxMsgs == 2
MaxReply == 2

Roles == {"system", "user", "assistant"}
Chars == {" ", "x"}
\* the fixed text of backend/prompts.py
SYSTEM_PROMPT == << "SYSTEM_PROMPT" >>
InputTexts == { << "x" >>, << " ", "x" >> }
Message(role, content) == [role |-> role, content |-> content]
InputMessages == {Message(r, t) : r \in Roles, t \in InputTexts}
InputLists == SeqsUpTo(InputMessages, MaxMsgs)
RawReplies == SeqsUpTo(Chars, MaxReply)

\* str.strip(): the text without its leading and trailing white space
RECURSIVE LStrip(_)
LStrip(t) == IF t # <<>> /\ t[1] = " " THEN LStrip(Tail(t)) ELSE t
RECURSIVE RStrip(_)
RStrip(t) ==
    IF t # <<>> /\ t[Len(t)] = " " THEN RStrip(SubSeq(t, 1, Len(t) - 1)) ELSE t
strip(t) == RStrip(LStrip(t))

\* what litellm.completion can do: raise, answer without a content, or
\* answer with a text
CompletionOutcomes ==
    {[kind |-> "raise", content |-> <<>>], [kind |-> "no_content", content |-> <<>>]}
        \cup {[kind |-> "content", content |-> t] : t \in RawReplies}

\* a variant of the test that overlooks the empty list
NeedsSystemPromptNonEmpty(msgs) == msgs # <<>> /\ msgs[1].role # "system"

\* not messages or messages[0]["role"] != "system"
NeedsSystemPrompt(msgs) == msgs = <<>> \/ msgs[1].role # "system"

CurrentMessages(msgs) ==
    IF NeedsSystemPrompt(msgs)
    THEN << Message("system", SYSTEM_PROMPT) >> \o msgs
    ELSE msgs

\* the else branch binds current_messages to the caller's list itself; the
\* other branch builds a new list
BindsSameObject(msgs) == ~NeedsSystemPrompt(msgs)

UpdatedMessages(current, raw) ==
    current \o << Message("assistant", strip(raw)) >>

\* a variant that appends the reply to current_messages in place
OperandAfterAppend(current, raw) ==
    Append(current, Message("assistant", strip(raw)))

\* list + list builds a new list and leaves its left operand as it was
OperandAfterConcat(current, raw) == current

\* a caller holds a list and has not called yet
AgentInit ==
    /\ messages \in InputLists
    /\ current_messages = <<>>
    /\ updated_messages = <<>>
    /\ agent_pc = "ready"
    /\ same_object = FALSE
    /\ pc = "start"
    /\ has_key = TRUE
    /\ call = [c \in CallIds |-> IdleFrame]
    /\ outcome = [c \in CallIds |-> Pending]
    /\ dimension_tuples = <<>>
    /\ task = [i \in Tasks |-> "none"]
    /\ future = [i \in Tasks |-> Returns(<<>>)]
    /\ all_queries = <<>>
    /\ query_id = 1
    /\ regular_queries = <<>>
    /\ ambiguous_queries = <<>>
    /\ adversarial_queries = <<>>
    /\ shuffled = <<>>
    /\ files = {}
    /\ save_calls = 0
    /\ mkdir_calls = 0
    /\ stdout = <<>>
    /\ meter = Unmetered

\* get_agent_response is entered: it builds current_messages and invokes
\* litellm.completion
AgentCall ==
    /\ agent_pc = "ready"
    /\ current_messages' = CurrentMessages(messages)
    /\ same_object' = BindsSameObject(messages)
    /\ agent_pc' = "completion"
    /\ UNCHANGED << messages, updated_messages >>
    /\ UNCHANGED main_vars

\* the provider answers: the reply is stripped, appended to a new list and
\* returned, or the exception leaves get_agent_response; what happens to the
\* object current_messages happens to the caller's list when the two are
\* one object
AgentReturn ==
    /\ agent_pc = "completion"
    /\ \E o \in CompletionOutcomes :
          IF o.kind = "content"
          THEN /\ updated_messages' = UpdatedMessages(current_messages, o.content)
               /\ current_messages' = OperandAfterConcat(current_messages, o.content)
               /\ messages' = IF same_object THEN current_messages' ELSE messages
               /\ agent_pc' = "returned"
          ELSE /\ agent_pc' = "raised"
               /\ UNCHANGED << messages, current_messages, updated_messages >>
    /\ UNCHANGED same_object
    /\ UNCHANGED main_vars

AgentNext == AgentCall \/ AgentReturn

AgentSpec == AgentInit /\ [][AgentNext]_vars

(***************************************************************************)
(* A conversation: the caller starts from a list without a system entry,   *)
(* and after every return builds a new list from the result and further    *)
(* user entries and calls get_agent_response again.                        *)
(***************************************************************************)
\* the longest conversation a caller passes, and the most user entries it
\* appends at once
MaxChat == 6
MaxAppend == 1

UserMessages == {Message("user", t) : t \in InputTexts}
ChatStarts ==
    {q \in InputLists : \A k \in 1..Len(q) : q[k].role # "system"}
UserEntries == {q \in SeqsUpTo(UserMessages, MaxAppend) : q # <<>>}

ChatInit ==
    /\ messages \in ChatStarts
    /\ current_messages = <<>>
    /\ updated_messages = <<>>
    /\ agent_pc = "ready"
    /\ same_object = FALSE
    /\ pc = "start"
    /\ has_key = TRUE
    /\ call = [c \in CallIds |-> IdleFrame]
    /\ outcome = [c \in CallIds |-> Pending]
    /\ dimension_tuples = <<>>
    /\ task = [i \in Tasks |-> "none"]
    /\ future = [i \in Tasks |-> Returns(<<>>)]
    /\ all_queries = <<>>
    /\ query_id = 1
    /\ regular_queries = <<>>
    /\ ambiguous_queries = <<>>
    /\ adversarial_queries = <<>>
    /\ shuffled = <<>>
    /\ files = {}
    /\ save_calls = 0
    /\ mkdir_calls = 0
    /\ stdout = <<>>
    /\ meter = Unmetered

\* the caller builds its next list, a new object, from the returned list and
\* further user entries, and calls again
FeedBack ==
    /\ agent_pc = "returned"
    /\ \E more \in UserEntries :
          /\ Len(updated_messages) + Len(more) <= MaxChat
          /\ messages' = updated_messages \o more
    /\ agent_pc' = "ready"
    /\ same_object' = FALSE
    /\ UNCHANGED << current_messages, updated_messages >>
    /\ UNCHANGED main_vars

ChatNext == AgentCall \/ AgentReturn \/ FeedBack

ChatSpec == ChatInit /\ [][ChatNext]_vars

(***************************************************************************)
(* generate_dimension_tuples on the tuple list of one provider response:   *)
(* every short list over the two example tuples, and long lists, of more   *)
(* tuples than the prompt asks for, with few repeated entries.  The        *)
(* specification starts where call_llm has returned the response.          *)
(***************************************************************************)
\* the n-th of a family of tuples that differ in one field
WideTuple(n) == [TupleVegan EXCEPT !.CuisinePreference = ToString(n)]

Largest(q) == IF q = <<>> THEN 0 ELSE CHOOSE m \in Items(q) : \A x \in Items(q) : x <= m

\* the lists of n tuple numbers with at most r entries that repeat an
\* earlier one, the tuples numbered in the order of their first occurrence
RECURSIVE Growth(_, _)
Growth(n, r) ==
    IF n = 0 THEN {<<>>}
    ELSE {Append(q, Largest(q) + 1) : q \in Growth(n - 1, r)}
            \cup (IF r = 0 THEN {}
                  ELSE UNION {{Append(q, v) : v \in 1..Largest(q)} :
                                 q \in Growth(n - 1, r - 1)})

LongLists ==
    UNION {{[k \in 1..Len(q) |-> WideTuple(q[k])] : q \in Growth(n, MaxRepeat)} :
              n \in 0..(NUM_TUPLES_TO_GENERATE + MaxOver)}

TupleResponses == SeqsUpTo(DimensionTuple, MaxTupleResp) \cup LongLists

DedupInit ==
    /\ pc = "step1"
    /\ has_key = TRUE
    /\ \E tuples \in TupleResponses :
          call = [c \in CallIds |->
                    IF c = TupCall
                    THEN call_llm_iter(EnteredFrame,
                                       [kind |-> "valid", payload |-> tuples])
                    ELSE IdleFrame]
    /\ outcome = [c \in CallIds |-> Pending]
    /\ dimension_tuples = <<>>
    /\ task = [i \in Tasks |-> "none"]
    /\ future = [i \in Tasks |-> Returns(<<>>)]
    /\ all_queries = <<>>
    /\ query_id = 1
    /\ regular_queries = <<>>
    /\ ambiguous_queries = <<>>
    /\ adversarial_queries = <<>>
    /\ shuffled = <<>>
    /\ files = {}
    /\ save_calls = 0
    /\ mkdir_calls = 0
    /\ stdout = << MsgStep1 >>
    /\ AgentIdle
    /\ meter = Unmetered

DedupNext == GenerateDimensionTuplesReturn

DedupSpec == DedupInit /\ [][DedupNext]_vars

(***************************************************************************)
(* generate_queries_parallel alone, on every list of distinct tuples, with *)
(* responses of up to MaxK queries.  The specification starts where main   *)
(* has entered the function and every task is submitted, and ends when the *)
(* function has returned.                                                  *)
(***************************************************************************)
FanOutInputs ==
    {q \in SeqsUpTo(DimensionTuple, MaxTasks) :
        q # <<>> /\ \A a, b \in 1..Len(q) : a # b => q[a] # q[b]}
FanOutCalls == {TaskCall(i) : i \in Tasks}
FanOutResponses(c) ==
    {[kind |-> "raise", payload |-> <<>>]}
        \cup {[kind |-> "valid", payload |-> [j \in 1..n |-> QueryText(c, j)]] :
                 n \in 0..MaxK}

FanOutInit ==
    /\ pc = "step2"
    /\ has_key = TRUE
    /\ call = [c \in CallIds |-> IdleFrame]
    /\ dimension_tuples \in FanOutInputs
    /\ outcome = [c \in CallIds |->
                    IF c = TupCall THEN [st |-> "ok", n |-> Len(dimension_tuples)]
                    ELSE Pending]
    /\ task = [i \in Tasks |->
                 IF i <= Len(dimension_tuples) THEN "queued" ELSE "none"]
    /\ future = [i \in Tasks |-> Returns(<<>>)]
    /\ all_queries = <<>>
    /\ query_id = 1
    /\ regular_queries = <<>>
    /\ ambiguous_queries = <<>>
    /\ adversarial_queries = <<>>
    /\ shuffled = <<>>
    /\ files = {}
    /\ save_calls = 0
    /\ mkdir_calls = 0
    /\ stdout = << MsgStep1, MsgTuples(Len(dimension_tuples)), MsgStep2,
                   MsgFanOut(Len(dimension_tuples)) >>
    /\ AgentIdle
    /\ meter = Unmetered

\* one iteration of call_llm's loop in a worker of the pool
FanOutAttempt(c) ==
    /\ call[c].st = "ready"
    /\ MayRun(c)
    /\ \E resp \in FanOutResponses(c) :
          call' = [call EXCEPT ![c] = call_llm_iter(call[c], resp)]
    /\ UNCHANGED << pc, has_key, outcome, dimension_tuples, task, future,
                    all_queries, query_id, regular_queries,
                    ambiguous_queries, adversarial_queries, shuffled, files,
                    save_calls, mkdir_calls, stdout >>
    /\ UNCHANGED agent_vars
    /\ meter' = CountProvider(meter)

FanOutNext ==
    \/ \E i \in Tasks : StartTask(i)
    \/ \E c \in FanOutCalls : FanOutAttempt(c)
    \/ \E c \in FanOutCalls : Wake(c)
    \/ \E i \in Tasks : TaskReturn(i)
    \/ \E i \in Tasks : Collect(i)
    \/ RegularReturn

FanOutSpec == FanOutInit /\ [][FanOutNext]_vars

(***************************************************************************)
(* A whole run of main with the observer switched on.  The provider either *)
(* raises or answers with a fixed body: no tuple, one or two tuples for    *)
(* the tuple call, one query for every other call.                         *)
(***************************************************************************)
RunResponses(c) ==
    {[kind |-> "raise", payload |-> <<>>]}
        \cup (IF c = TupCall
              THEN {[kind |-> "valid", payload |-> p] :
                       p \in {<<>>, << TupleVegan >>, << TupleVegan, TupleGlutenFree >>}}
              ELSE {[kind |-> "valid", payload |-> << QueryText(c, 1) >>]})

RunInit ==
    /\ pc = "start"
    /\ has_key \in BOOLEAN
    /\ call = [c \in CallIds |-> IdleFrame]
    /\ outcome = [c \in CallIds |-> Pending]
    /\ dimension_tuples = <<>>
    /\ task = [i \in Tasks |-> "none"]
    /\ future = [i \in Tasks |-> Returns(<<>>)]
    /\ all_queries = <<>>
    /\ query_id = 1
    /\ regular_queries = <<>>
    /\ ambiguous_queries = <<>>
    /\ adversarial_queries = <<>>
    /\ shuffled = <<>>
    /\ files = {}
    /\ save_calls = 0
    /\ mkdir_calls = 0
    /\ stdout = <<>>
    /\ AgentIdle
    /\ meter = Metered

\* one iteration of call_llm's loop: completion() is invoked and answers
RunAttempt(c) ==
    /\ call[c].st = "ready"
    /\ MayRun(c)
    /\ \E resp \in RunResponses(c) :
          call' = [call EXCEPT ![c] = call_llm_iter(call[c], resp)]
    /\ UNCHANGED << pc, has_key, outcome, dimension_tuples, task, future,
                    all_queries, query_id, regular_queries,
                    ambiguous_queries, adversarial_queries, shuffled, files,
                    save_calls, mkdir_calls, stdout >>
    /\ UNCHANGED agent_vars
    /\ meter' = CountProvider(meter)

RunNext ==
    \/ CheckCredential
    \/ \E c \in CallIds : RunAttempt(c)
    \/ \E c \in CallIds : Wake(c)
    \/ GenerateDimensionTuplesReturn
    \/ AfterTuples
    \/ \E i \in Tasks : StartTask(i)
    \/ \E i \in Tasks : TaskReturn(i)
    \/ \E i \in Tasks : Collect(i)
    \/ RegularReturn
    \/ AmbiguousReturn
    \/ AdversarialReturn
    \/ MergeShuffleSave

\* every invocation of the provider returns, with a value or an error, a
\* sleep ends, and the threads of the process are scheduled: a step that
\* stays possible is taken
RunSpec == RunInit /\ [][RunNext]_vars /\ WF_vars(RunNext)

(***************************************************************************)
(* The record ids of a run whose calls return several queries each.  The   *)
(* specification starts where main has two tuples and                      *)
(* generate_queries_parallel has submitted their tasks; every call is      *)
(* answered at its first attempt with 0 to MaxIds queries, and the run     *)
(* goes on through the ambiguous and adversarial stages, the shuffle and   *)
(* persistence.                                                            *)
(***************************************************************************)
IdTuples == << TupleVegan, TupleGlutenFree >>
IdCalls == {TaskCall(i) : i \in 1..Len(IdTuples)} \cup {AmbCall, AdvCall}

IdResponses(c) ==
    {[kind |-> "valid", payload |-> [j \in 1..n |-> QueryText(c, j)]] :
        n \in 0..MaxIds}

IdInit ==
    /\ pc = "step2"
    /\ has_key = TRUE
    /\ call = [c \in CallIds |-> IdleFrame]
    /\ dimension_tuples = IdTuples
    /\ outcome = [c \in CallIds |->
                    IF c = TupCall THEN [st |-> "ok", n |-> Len(dimension_tuples)]
                    ELSE Pending]
    /\ task = [i \in Tasks |->
                 IF i <= Len(dimension_tuples) THEN "queued" ELSE "none"]
    /\ future = [i \in Tasks |-> Returns(<<>>)]
    /\ all_queries = <<>>
    /\ query_id = 1
    /\ regular_queries = <<>>
    /\ ambiguous_queries = <<>>
    /\ adversarial_queries = <<>>
    /\ shuffled = <<>>
    /\ files = {}
    /\ save_calls = 0
    /\ mkdir_calls = 0
    /\ stdout = << MsgStep1, MsgTuples(Len(dimension_tuples)), MsgStep2,
                   MsgFanOut(Len(dimension_tuples)) >>
    /\ AgentIdle
    /\ meter = Unmetered

\* one iteration of call_llm's loop: completion() is invoked and answers
IdAttempt(c) ==
    /\ call[c].st = "ready"
    /\ MayRun(c)
    /\ \E resp \in IdResponses(c) :
          call' = [call EXCEPT ![c] = call_llm_iter(call[c], resp)]
    /\ UNCHANGED << pc, has_key, outcome, dimension_tuples, task, future,
                    all_queries, query_id, regular_queries,
                    ambiguous_queries, adversarial_queries, shuffled, files,
                    save_calls, mkdir_calls, stdout >>
    /\ UNCHANGED agent_vars
    /\ meter' = CountProvider(meter)

IdNext ==
    \/ \E i \in Tasks : StartTask(i)
    \/ \E c \in IdCalls : IdAttempt(c)
    \/ \E i \in Tasks : TaskReturn(i)
    \/ \E i \in Tasks : Collect(i)
    \/ RegularReturn
    \/ AmbiguousReturn
    \/ AdversarialReturn
    \/ MergeShuffleSave

IdSpec == IdInit /\ [][IdNext]_vars

(***************************************************************************)
(* Properties.                                                             *)
(***************************************************************************)
Failures(outs) == {k \in 1..Len(outs) : outs[k].kind # "valid"}
AllFailed(outs) == Failures(outs) = 1..Len(outs)
\* the provider failed on its first j invocations and succeeded on the next
FailedThenSucceeded(outs, j) ==
    /\ Len(outs) = j + 1
    /\ Failures(outs) = 1..j

\* C1: a call whose provider fails on every attempt invokes the provider
\* exactly 3 times and then raises the failure of the third attempt; it
\* returns no value, and no call ever makes a fourth attempt.
C1_AllFailRaisesThird ==
    \A c \in CallIds :
        LET fr == call[c]
        IN  /\ fr.calls = Len(fr.outs)
            /\ fr.calls <= 3
            /\ (fr.calls = 3 /\ AllFailed(fr.outs)) =>
                   /\ fr.st = "raised"
                   /\ fr.exc = ExceptionOf(fr.outs[3])
                   /\ fr.val = <<>>
            /\ fr.st = "raised" => (fr.calls = 3 /\ AllFailed(fr.outs))
            /\ (AllFailed(fr.outs) /\ fr.calls < 3) => ~Finished(fr)

\* a call raised after three failures of two different kinds
C1_Witness ==
    \E c \in CallIds :
        /\ call[c].st = "raised"
        /\ call[c].calls = 3
        /\ call[c].outs[1].kind = "raise"
        /\ call[c].outs[3].kind = "malformed"
        /\ call[c].exc = "DecodeError"

\* C2: a call whose provider fails on its first j attempts (j in 0..2) and
\* succeeds on attempt j+1 returns the value of that attempt after exactly
\* j+1 invocations; and a call returns in no other way.
C2_FailThenSucceed ==
    \A c \in CallIds :
        LET fr == call[c]
        IN  /\ \A j \in 0..2 :
                  FailedThenSucceeded(fr.outs, j) =>
                      /\ fr.st = "returned"
                      /\ fr.val = fr.outs[j + 1].payload
                      /\ fr.calls = j + 1
                      /\ fr.exc = NoException
            /\ fr.st = "returned" =>
                  \E j \in 0..2 : FailedThenSucceeded(fr.outs, j)

\* a call returned a non-empty value on its third invocation
C2_Witness ==
    \E c \in CallIds :
        /\ call[c].st = "returned"
        /\ call[c].calls = 3
        /\ FailedThenSucceeded(call[c].outs, 2)
        /\ call[c].val # <<>>
        /\ call[c].val = call[c].outs[3].payload

Untouched(c) == call[c] = IdleFrame /\ outcome[c] = Pending

\* C3: when the tuple stage yields no tuple, main terminates without starting
\* the regular, ambiguous or adversarial stage and without invoking
\* persistence, so no file is created; that is the only way a run with a
\* credential ends short of persistence: no failure of another stage stops
\* it or leaves it unable to go on.
C3_EmptyTuplesOnlyFatal ==
    /\ pc = "aborted" =>
          /\ dimension_tuples = <<>>
          /\ \A c \in CallIds \ {TupCall} : Untouched(c)
          /\ \A i \in Tasks : task[i] = "none"
          /\ regular_queries = <<>> /\ all_queries = <<>>
          /\ ambiguous_queries = <<>> /\ adversarial_queries = <<>>
          /\ save_calls = 0 /\ mkdir_calls = 0 /\ files = {}
    /\ pc \in {"step2", "step3", "step4", "merge", "done"} =>
          dimension_tuples # <<>>
    /\ pc = "done" => save_calls = 1
    /\ pc # "crashed"
    /\ pc \in {"start", "step1", "step1_done", "step2", "step3", "step4"} =>
          ENABLED Next

\* a run aborted because the tuple call raised after its retries
C3_Witness ==
    /\ pc = "aborted"
    /\ outcome[TupCall].st = "failed"
    /\ files = {}


\* the number of tuples main got, the fan-out tasks whose call returned a
\* value, and the states in which the regular stage has returned
NumTuples == Len(dimension_tuples)
Survivors == {i \in 1..NumTuples : outcome[TaskCall(i)].st = "ok"}
RegularReturned == pc \in {"step3", "step4", "merge", "done"}

\* C4: when the ambiguous or the adversarial call fails after its retries,
\* its generator returns an empty list, no exception reaches main, and the
\* run still merges and persists every record of the other categories.
C4_AmbAdvFailureNonFatal ==
    /\ pc # "crashed"
    /\ (pc \in {"step4", "merge", "done"} /\ outcome[AmbCall].st = "failed") =>
          ambiguous_queries = <<>>
    /\ (pc \in {"merge", "done"} /\ outcome[AdvCall].st = "failed") =>
          adversarial_queries = <<>>
    /\ call[AmbCall].st = "raised" => (pc = "step3" /\ ENABLED AmbiguousReturn)
    /\ call[AdvCall].st = "raised" => (pc = "step4" /\ ENABLED AdversarialReturn)
    /\ (pc = "done" /\ (outcome[AmbCall].st = "failed" \/ outcome[AdvCall].st = "failed")) =>
          LET produced == Items(regular_queries) \cup Items(ambiguous_queries)
                              \cup Items(adversarial_queries)
          IN  /\ save_calls = 1
              /\ regular_queries = all_queries
              /\ Items(shuffled) = produced
              /\ produced # {} =>
                    \E f \in files : Items(f.rows) = {CsvRow(q) : q \in produced}

\* a finished run whose ambiguous call failed and whose file holds the
\* regular and adversarial records
C4_Witness ==
    /\ pc = "done"
    /\ outcome[AmbCall].st = "failed"
    /\ ambiguous_queries = <<>>
    /\ Len(regular_queries) >= 1
    /\ Len(adversarial_queries) = 1
    /\ \E f \in files : Len(f.rows) = Len(regular_queries) + 1

\* C5: a fan-out task whose call fails after its retries contributes no
\* record and leaves its siblings alone: with T tuples, F failed tasks and K
\* queries from the provider for every surviving tuple, the regular stage
\* returns exactly (T-F)*K records, each referencing a surviving tuple, in
\* every interleaving and completion order.
C5_FailedTaskIsolated ==
    RegularReturned =>
        /\ \A K \in 0..MaxQ :
              (\A i \in Survivors : outcome[TaskCall(i)].n = K) =>
                  Len(regular_queries) = Cardinality(Survivors) * K
        /\ \A q \in Items(regular_queries) :
              \E i \in Survivors : q.dimension_tuple = Some(dimension_tuples[i])

\* the first of two tasks failed and the stage returned the one record of
\* the second
C5_Witness ==
    /\ pc = "step3"
    /\ NumTuples = 2
    /\ outcome[TaskCall(1)].st = "failed"
    /\ outcome[TaskCall(2)] = [st |-> "ok", n |-> 1]
    /\ Len(regular_queries) = 1
    /\ regular_queries[1].dimension_tuple = Some(dimension_tuples[2])

\* C6: when the provider returns exactly K queries for every one of T
\* tuples, the regular stage returns exactly T*K records; and every record
\* it returns is tagged "regular" and carries a tuple.
C6_RegularCount ==
    /\ RegularReturned =>
          \A K \in 0..MaxQ :
              (\A i \in 1..NumTuples : outcome[TaskCall(i)] = [st |-> "ok", n |-> K]) =>
                  Len(regular_queries) = NumTuples * K
    /\ \A q \in Items(all_queries) \cup Items(regular_queries) :
          /\ q.query_type = "regular"
          /\ q.dimension_tuple # None
          /\ q.dimension_tuple[1] \in Items(dimension_tuples)

\* two tuples with one query each gave two regular records
C6_Witness ==
    /\ pc = "step3"
    /\ NumTuples = 2
    /\ \A i \in 1..2 : outcome[TaskCall(i)] = [st |-> "ok", n |-> 1]
    /\ Len(regular_queries) = 2
    /\ regular_queries[1].dimension_tuple # regular_queries[2].dimension_tuple

\* the rows of the output file, none when there is no file
PersistedRows == IF files = {} THEN <<>> ELSE (CHOOSE f \in files : TRUE).rows
RowsOfType(rows, ty) == {k \in 1..Len(rows) : rows[k].query_type = ty}
AllCallsOk ==
    /\ \A i \in 1..NumTuples : outcome[TaskCall(i)].st = "ok"
    /\ outcome[AmbCall].st = "ok"
    /\ outcome[AdvCall].st = "ok"

\* C7: in a full run with T tuples, K queries for every tuple, A ambiguous
\* and D adversarial queries, exactly T*K + A + D records are persisted, T*K
\* of them regular, A ambiguous and D adversarial; and a persisted record's
\* tuple field is populated exactly when the record is regular.
C7_EndToEndCounts ==
    pc = "done" =>
        /\ Cardinality(files) <= 1
        /\ \A K \in 0..MaxQ :
              (AllCallsOk /\ \A i \in 1..NumTuples : outcome[TaskCall(i)].n = K) =>
                  LET A == outcome[AmbCall].n
                      D == outcome[AdvCall].n
                  IN  /\ Len(PersistedRows) = NumTuples * K + A + D
                      /\ Cardinality(RowsOfType(PersistedRows, "regular")) = NumTuples * K
                      /\ Cardinality(RowsOfType(PersistedRows, "ambiguous")) = A
                      /\ Cardinality(RowsOfType(PersistedRows, "adversarial")) = D
        /\ \A k \in 1..Len(PersistedRows) :
              PersistedRows[k].dimension_tuple_json # None
                  <=> PersistedRows[k].query_type = "regular"

\* a run with 2 tuples, 1 query per tuple, 1 ambiguous and 1 adversarial
\* query persisted 4 rows
C7_Witness ==
    /\ pc = "done"
    /\ NumTuples = 2
    /\ AllCallsOk
    /\ \A i \in 1..2 : outcome[TaskCall(i)].n = 1
    /\ outcome[AmbCall].n = 1
    /\ outcome[AdvCall].n = 1
    /\ Len(PersistedRows) = 4
    /\ Cardinality(RowsOfType(PersistedRows, "regular")) = 2

DistinctIds(qs) ==
    \A a, b \in 1..Len(qs) : a # b => qs[a].id # qs[b].id
Prefix(ty) ==
    CASE ty = "regular" -> "SYN" [] ty = "ambiguous" -> "AMB" [] OTHER -> "ADV"

\* C8: the ids of the records handed to persistence are pairwise distinct,
\* within a category prefix and across categories, whatever the numbers of
\* queries and the completion order; so are the ids collected so far.
C8_IdsDistinct ==
    /\ pc = "step2" => DistinctIds(all_queries)
    /\ pc # "done" =>
          DistinctIds(regular_queries \o ambiguous_queries \o adversarial_queries)
    /\ DistinctIds(shuffled)
    /\ \A f \in files : DistinctIds(f.rows)
    /\ \A k \in 1..Len(shuffled) :
          shuffled[k].id[1] = Prefix(shuffled[k].query_type)

\* persistence was handed eight records: four regular ones, two from each
\* task's answer with the second task collected first, two ambiguous and
\* two adversarial ones
C8_Witness ==
    /\ pc = "done"
    /\ Len(shuffled) = 8
    /\ {shuffled[k].id : k \in 1..8}
          = {SynId(1), SynId(2), SynId(3), SynId(4),
             AmbId(1), AmbId(2), AdvId(1), AdvId(2)}
    /\ \A k \in 1..8 :
          /\ shuffled[k].id \in {SynId(1), SynId(2)} =>
                shuffled[k].dimension_tuple = Some(TupleGlutenFree)
          /\ shuffled[k].id \in {SynId(3), SynId(4)} =>
                shuffled[k].dimension_tuple = Some(TupleVegan)
    /\ \E f \in files : Len(f.rows) = 8

\* C9: save_queries_to_csv creates no file for an empty list and exactly one
\* file of N rows for N > 0 records, so no run leaves a file without rows,
\* the run whose regular, ambiguous and adversarial calls all fail included.
C9_NoEmptyFile ==
    /\ \A f \in files : Len(f.rows) > 0
    /\ Cardinality(files) <= 1
    /\ pc # "done" => (files = {} /\ save_calls = 0)
    /\ pc = "done" =>
          /\ save_calls = 1
          /\ shuffled = <<>> => files = {}
          /\ shuffled # <<>> =>
                \E f \in files : files = {f} /\ Len(f.rows) = Len(shuffled)

\* a run that got tuples, lost every later call and wrote no file
C9_Witness ==
    /\ pc = "done"
    /\ outcome[TupCall].st = "ok"
    /\ NumTuples = 2
    /\ \A c \in CallIds \ {TupCall} : outcome[c].st = "failed"
    /\ save_calls = 1
    /\ files = {}

\* C10: whatever sequence of tuples the model returns, the sequence that
\* generate_dimension_tuples returns holds no two entries with the same
\* serialization.
C10_NoDuplicateTuples ==
    \A a, b \in 1..Len(dimension_tuples) :
        a # b => model_dump_json(dimension_tuples[a]) # model_dump_json(dimension_tuples[b])

\* the model repeated its first tuple after a different one and two tuples
\* were returned
C10_Witness ==
    /\ pc = "step1_done"
    /\ Len(call[TupCall].val) = 3
    /\ call[TupCall].val[1] = call[TupCall].val[3]
    /\ call[TupCall].val[1] # call[TupCall].val[2]
    /\ Len(dimension_tuples) = 2

\* how often the record r occurs in the list q
Occurrences(q, r) == Cardinality({k \in 1..Len(q) : q[k] = r})
\* the list main hands to random.shuffle
Merged == regular_queries \o ambiguous_queries \o adversarial_queries

\* C11: the list handed to persistence is a permutation of the regular, the
\* ambiguous and the adversarial records together: the shuffle keeps the
\* length and the number of occurrences of every record and every id, and the
\* file holds the row of every record exactly once, in the shuffled order.
C11_ShufflePermutes ==
    pc = "done" =>
        /\ Len(shuffled) = Len(Merged)
        /\ \A k \in 1..Len(Merged) :
              /\ Occurrences(shuffled, Merged[k]) = Occurrences(Merged, Merged[k])
              /\ Cardinality({a \in 1..Len(shuffled) : shuffled[a].id = Merged[k].id}) = 1
        /\ \A k \in 1..Len(shuffled) : Occurrences(Merged, shuffled[k]) >= 1
        /\ shuffled # <<>> =>
              /\ Len(PersistedRows) = Len(shuffled)
              /\ \A k \in 1..Len(shuffled) : PersistedRows[k] = CsvRow(shuffled[k])

\* four records of the three categories were persisted in an order that
\* moved the last record to the front
C11_Witness ==
    /\ pc = "done"
    /\ Len(Merged) = 4
    /\ shuffled # Merged
    /\ shuffled[1] = Merged[4]
    /\ shuffled[1].query_type = "adversarial"
    /\ Len(PersistedRows) = 4
    /\ PersistedRows[1].id = AdvId(1)


\* C12: without the credential main prints the error and returns at once:
\* the run is in no stage, no call of the provider was made or is pending,
\* no task exists, no directory or file was created, nothing else was
\* printed and no step of the program remains; and only a run without the
\* credential ends that way.
C12_NoCredentialNoWork ==
    /\ ~has_key =>
          /\ pc \in {"start", "no_credential"}
          /\ \A c \in CallIds : Untouched(c) /\ call[c].calls = 0
          /\ \A i \in Tasks : task[i] = "none"
          /\ dimension_tuples = <<>> /\ all_queries = <<>> /\ shuffled = <<>>
          /\ files = {} /\ mkdir_calls = 0 /\ save_calls = 0
          /\ stdout = IF pc = "start" THEN <<>> ELSE << MsgNoCredential >>
          /\ pc = "no_credential" => ~ENABLED Next
    /\ pc = "no_credential" => ~has_key
    /\ has_key => \A k \in 1..Len(stdout) : stdout[k] # MsgNoCredential

\* a run without the credential has printed the error and stopped
C12_Witness ==
    /\ ~has_key
    /\ pc = "no_credential"
    /\ stdout = << MsgNoCredential >>
    /\ mkdir_calls = 0

\* a call of the provider wrapper that is entered and not yet consumed
Active(c) == call[c] # IdleFrame
Returned(c) == outcome[c] # Pending /\ ~Active(c)

\* C13: the stages are separated by barriers.  A fan-out task exists only
\* after the tuple call has returned; the ambiguous call is active only when
\* every task has been collected; the adversarial call is active only after
\* the ambiguous call has returned; merge, shuffle and persistence happen
\* only after the adversarial call has returned; so the calls of two
\* different stages are never active together.
C13_StageBarriers ==
    /\ (\E i \in Tasks : task[i] # "none") =>
          /\ Returned(TupCall)
          /\ pc \notin {"start", "step1", "step1_done"}
    /\ (\E i \in Tasks : Active(TaskCall(i))) => pc = "step2"
    /\ (Active(AmbCall) \/ outcome[AmbCall] # Pending) =>
          /\ \A i \in Tasks : task[i] \in {"none", "collected"}
          /\ \A i \in Tasks : ~Active(TaskCall(i))
          /\ \A i \in 1..NumTuples : task[i] = "collected" /\ Returned(TaskCall(i))
          /\ regular_queries = all_queries
    /\ Active(AmbCall) => pc = "step3"
    /\ (Active(AdvCall) \/ outcome[AdvCall] # Pending) => Returned(AmbCall)
    /\ Active(AdvCall) => pc = "step4"
    /\ (pc \in {"merge", "done"} \/ save_calls > 0 \/ mkdir_calls > 0
           \/ files # {} \/ shuffled # <<>>) =>
          /\ Returned(AdvCall)
          /\ Returned(AmbCall)
          /\ \A c \in CallIds : ~Active(c)

\* the ambiguous call is waiting between two attempts; both tasks of the
\* stage before it were collected, one of them after a failure
C13_Witness ==
    /\ pc = "step3"
    /\ call[AmbCall].st = "sleeping"
    /\ NumTuples = 2
    /\ \A i \in 1..2 : task[i] = "collected"
    /\ outcome[TaskCall(1)].st = "failed"
    /\ outcome[TaskCall(2)].st = "ok"

\* the moves a fan-out task makes
TaskMoves == {<<"queued", "running">>, <<"running", "done">>, <<"done", "collected">>}
\* the call of task i is inside call_llm
InCall(i) == call[TaskCall(i)] # IdleFrame

\* at most MAX_WORKERS tasks hold a worker, and a task holds its worker
\* from its start to its return, retries and waits included
PoolBounded ==
    /\ Cardinality(Running) <= MAX_WORKERS
    /\ \A i \in DOMAIN task : InCall(i) => task[i] = "running"
    /\ \A i \in DOMAIN task : task[i] = "running" => InCall(i)
    /\ \A i \in DOMAIN task :
          task[i] = "queued" => outcome[TaskCall(i)] = Pending

\* a task is entered only by leaving the queue, and it never goes back
ExecutedOnce ==
    \A i \in DOMAIN task :
        /\ task'[i] # task[i] => <<task[i], task'[i]>> \in TaskMoves
        /\ (~InCall(i) /\ InCall(i)') => (task[i] = "queued" /\ task'[i] = "running")
        /\ outcome[TaskCall(i)] # Pending =>
              outcome'[TaskCall(i)] = outcome[TaskCall(i)]

\* C14: with more tuples submitted than MAX_WORKERS, at most 5 tasks execute
\* at any moment; a task keeps its worker across its retries and waits;
\* every submitted task is executed, and exactly once: it starts, returns
\* and is collected, and it moves only forward.
C14_BoundedPool ==
    /\ []PoolBounded
    /\ [][ExecutedOnce]_vars
    /\ <>[](\A i \in PoolTasks :
               task[i] = "collected" /\ outcome[TaskCall(i)] # Pending)

\* five tasks hold the five workers, the first of them waiting for its
\* second retry, while the sixth is still queued and cannot start
C14_Witness ==
    /\ Cardinality(Running) = MAX_WORKERS
    /\ task[1] = "running"
    /\ call[TaskCall(1)].st = "sleeping"
    /\ call[TaskCall(1)].sleeps = 2
    /\ task[MAX_WORKERS + 1] = "queued"
    /\ ~ENABLED StartTask(MAX_WORKERS + 1)

SystemEntry == [role |-> "system", content |-> SYSTEM_PROMPT]
StartsWithSystem(msgs) == Len(msgs) >= 1 /\ msgs[1].role = "system"
\* the list q without its last entry
Front(q) == SubSeq(q, 1, Len(q) - 1)

\* C15: get_agent_response returns its input extended by one assistant
\* entry at the end.  When the input does not begin with a system entry, the
\* empty input included, the result is the system entry with the fixed text,
\* then the input, then the assistant entry; otherwise it is the input, then
\* the assistant entry.  The input's entries are unchanged and in order, and
\* the caller's list is as it was.
C15_AgentExtendsInput ==
    agent_pc = "returned" =>
        /\ updated_messages # <<>>
        /\ updated_messages[Len(updated_messages)].role = "assistant"
        /\ StartsWithSystem(messages) =>
              Front(updated_messages) = messages
        /\ ~StartsWithSystem(messages) =>
              /\ Len(updated_messages) = Len(messages) + 2
              /\ updated_messages[1] = SystemEntry
              /\ Front(Tail(updated_messages)) = messages
        /\ messages \in InputLists

\* the empty list came back as the system entry and a stripped reply
C15_Witness ==
    /\ agent_pc = "returned"
    /\ messages = <<>>
    /\ updated_messages = << SystemEntry, [role |-> "assistant", content |-> << "x" >>] >>

\* every fan-out task of the run failed after its retries
AllRegularFailed ==
    /\ NumTuples >= 1
    /\ \A i \in 1..NumTuples : outcome[TaskCall(i)].st = "failed"
\* the lines a run prints whether or not its regular stage is empty, and the
\* report of one failed task, which a run with surviving tasks prints too
EveryRunLines ==
    {MsgStep1, MsgStep2, MsgStep3, MsgStep4, MsgCompleted, MsgNothingToSave,
     MsgTaskError, MsgAmbiguousError, MsgAdversarialError}
        \cup {MsgTuples(n) : n \in 1..MaxTasks}
        \cup {MsgFanOut(n) : n \in 1..MaxTasks}
        \cup {MsgSaved(n) : n \in 1..(MaxAmb + MaxAdv)}
        \cup {MsgSummary(a + d, 0, a, d) : a \in 0..MaxAmb, d \in 0..MaxAdv}
\* the run printed a line about its regular stage being empty
WarnedEmptyRegular == \E k \in 1..Len(stdout) : stdout[k] \notin EveryRunLines

\* C16: when every fan-out task fails, so that the regular stage returns no
\* record, the run goes on through the ambiguous and the adversarial stage
\* and persists their records, and it prints a warning about the empty
\* regular stage.
C16_EmptyRegularWarned ==
    (pc = "done" /\ AllRegularFailed) =>
        /\ regular_queries = <<>>
        /\ Returned(AmbCall) /\ Returned(AdvCall)
        /\ save_calls = 1
        /\ Len(PersistedRows) = Len(ambiguous_queries) + Len(adversarial_queries)
        /\ WarnedEmptyRegular

\* both tasks failed, the other two calls gave a query each, and the run
\* persisted the two records
C16_Witness ==
    /\ pc = "done"
    /\ NumTuples = 2
    /\ AllRegularFailed
    /\ regular_queries = <<>>
    /\ Len(ambiguous_queries) = 1 /\ Len(adversarial_queries) = 1
    /\ Len(PersistedRows) = 2
    /\ stdout[Len(stdout)] = MsgSummary(2, 0, 1, 1)

\* the positions of q that hold the first occurrence of their serialization
FirstPositions(q) ==
    {k \in 1..Len(q) :
        \A j \in 1..(k - 1) : model_dump_json(q[j]) # model_dump_json(q[k])}
\* the m-th smallest member of the set of positions P
NthOf(P, m) == CHOOSE k \in P : Cardinality({j \in P : j <= k}) = m
\* the subsequence of q at its first positions
FirstOccurrences(q) ==
    [m \in 1..Cardinality(FirstPositions(q)) |-> q[NthOf(FirstPositions(q), m)]]

\* C17: generate_dimension_tuples returns exactly the subsequence of the
\* first occurrences of the response's tuples: every distinct serialization
\* once, in first-seen order, and all of them, also when they are more than
\* the number of tuples asked for.
C17_FirstOccurrences ==
    (pc = "step1_done" /\ call[TupCall].st = "returned") =>
        LET all_tuples == call[TupCall].val
        IN  /\ dimension_tuples = FirstOccurrences(all_tuples)
            /\ Len(dimension_tuples) =
                  Cardinality({model_dump_json(all_tuples[k]) : k \in 1..Len(all_tuples)})
            /\ \A k \in 1..Len(all_tuples) :
                  Cardinality({m \in 1..Len(dimension_tuples) :
                      model_dump_json(dimension_tuples[m]) = model_dump_json(all_tuples[k])}) = 1

\* a response of 12 tuples, the last a repeat of the second, came back as
\* its 11 distinct tuples, one more than asked for
C17_Witness ==
    /\ pc = "step1_done"
    /\ Len(call[TupCall].val) = NUM_TUPLES_TO_GENERATE + 2
    /\ call[TupCall].val[NUM_TUPLES_TO_GENERATE + 2] = call[TupCall].val[2]
    /\ Len(dimension_tuples) = NUM_TUPLES_TO_GENERATE + 1
    /\ dimension_tuples = SubSeq(call[TupCall].val, 1, NUM_TUPLES_TO_GENERATE + 1)

\* the fan-out task whose response held the query text of record q
TaskOfQuery(q) == q.query[2]
TupleMatchesTask(q) ==
    q.query_type = "regular" =>
        /\ q.query[1] = "regular"
        /\ TaskOfQuery(q) \in 1..NumTuples
        /\ q.dimension_tuple = Some(dimension_tuples[TaskOfQuery(q)])

\* C18: in every completion order, a regular record carries the tuple that
\* was passed to the task whose response held the record's query text, in
\* the collecting loop's list, in the stage's result and in the list handed
\* to persistence.
C18_TupleOfOwnTask ==
    /\ \A k \in 1..Len(all_queries) : TupleMatchesTask(all_queries[k])
    /\ \A k \in 1..Len(regular_queries) : TupleMatchesTask(regular_queries[k])
    /\ \A k \in 1..Len(shuffled) : TupleMatchesTask(shuffled[k])

\* the second task completed first: its record was collected before the
\* first task's, and each record carries its own task's tuple
C18_Witness ==
    /\ pc = "step3"
    /\ Len(regular_queries) = 2
    /\ TaskOfQuery(regular_queries[1]) = 2
    /\ TaskOfQuery(regular_queries[2]) = 1
    /\ regular_queries[1].dimension_tuple = Some(dimension_tuples[2])
    /\ regular_queries[2].dimension_tuple = Some(dimension_tuples[1])
    /\ dimension_tuples[1] # dimension_tuples[2]

\* the records of the collecting loop's list that came from task i
RecordsOfTask(i) == {k \in 1..Len(all_queries) : TaskOfQuery(all_queries[k]) = i}
Collected(i) == task[i] = "collected"

\* the k-th record collected carries the sequence number k, the counter is
\* one ahead of the records, and the queries of one response sit next to
\* each other in the provider's order
SequenceNumbers ==
    /\ query_id = Len(all_queries) + 1
    /\ \A k \in 1..Len(all_queries) :
          /\ all_queries[k].id = SynId(k)
          /\ LET j == all_queries[k].query[3]
             IN  j > 1 =>
                    /\ k > 1
                    /\ all_queries[k - 1].query =
                          QueryText(TaskCall(TaskOfQuery(all_queries[k])), j - 1)
    /\ \A i \in 1..NumTuples :
          Cardinality(RecordsOfTask(i)) =
              IF Collected(i) THEN outcome[TaskCall(i)].n ELSE 0
    /\ pc = "step3" => regular_queries = all_queries

\* the counter moves only in a step of the collecting loop, and only up, by
\* the number of records that step appended
CounterSteps ==
    query_id' # query_id =>
        /\ \E i \in Tasks : task[i] = "done" /\ task'[i] = "collected"
        /\ query_id' > query_id
        /\ Len(all_queries') - Len(all_queries) = query_id' - query_id
        /\ SubSeq(all_queries', 1, Len(all_queries)) = all_queries

\* C19: the regular ids come from one counter that only the collecting loop
\* advances and that only grows; the N regular records carry exactly the
\* sequence numbers 1..N, a failed or empty task taking none, and the
\* queries of one task get consecutive numbers in the provider's order.
C19_SequentialIds ==
    /\ []SequenceNumbers
    /\ [][CounterSteps]_vars

\* the second task's two queries were collected first and hold numbers 1
\* and 2, the first task's two queries hold 3 and 4
C19_Witness ==
    /\ pc = "step3"
    /\ Len(regular_queries) = 4
    /\ \A k \in 1..4 : regular_queries[k].id = SynId(k)
    /\ regular_queries[1].query = QueryText(TaskCall(2), 1)
    /\ regular_queries[2].query = QueryText(TaskCall(2), 2)
    /\ regular_queries[3].query = QueryText(TaskCall(1), 1)
    /\ regular_queries[4].query = QueryText(TaskCall(1), 2)

\* the failed attempts of a call that were not its last allowed attempt
FailuresBeforeLast(outs) == {k \in Failures(outs) : k < max_retries}

\* C20: call_llm sleeps once after each failed attempt that another attempt
\* follows, and at no other time: a call that ended after n attempts has
\* slept n-1 times, a call that is asleep has slept once per attempt made,
\* no sleep follows a success or the third failure.
C20_SleepsBetweenAttempts ==
    \A c \in CallIds :
        LET fr == call[c]
        IN  /\ fr.sleeps = Cardinality(FailuresBeforeLast(fr.outs))
            /\ Finished(fr) => (fr.calls \in 1..3 /\ fr.sleeps = fr.calls - 1)
            /\ fr.st = "sleeping" =>
                  /\ fr.sleeps = fr.calls
                  /\ fr.calls < 3
                  /\ fr.outs[fr.calls].kind # "valid"
            /\ fr.st = "ready" => (fr.sleeps = fr.attempt /\ fr.calls = fr.attempt)
            /\ fr.sleeps <= 2

\* one call returned on its second attempt after one sleep while another
\* call of the same stage raised on its third after two
C20_Witness ==
    \E c, d \in CallIds :
        /\ call[c].st = "returned" /\ call[c].calls = 2 /\ call[c].sleeps = 1
        /\ call[d].st = "raised" /\ call[d].calls = 3 /\ call[d].sleeps = 2

\* the run has ended
Ended == pc \in {"no_credential", "aborted", "done"}
\* the calls whose wrapper invocation has ended
Consumed == {c \in CallIds : outcome[c] # Pending}
RunCalls == {TupCall, AmbCall, AdvCall} \cup {TaskCall(i) : i \in 1..NumTuples}

\* the statement of C21 as it stands, for the runs that have the credential:
\* every run ends aborted or done, and a run that got T tuples has entered
\* the wrapper exactly T+3 times and invoked the provider at most 3*(T+3)
\* times.  TLC refutes it: a run that got no tuple ends after one invocation
\* of the wrapper, not three.
C21_AsStated ==
    /\ <>[](has_key => pc \in {"aborted", "done"})
    /\ []((has_key /\ pc \in {"aborted", "done"}) =>
             /\ meter.wrapper_calls = NumTuples + 3
             /\ meter.provider_calls <= 3 * (NumTuples + 3))

\* the counts of the observer in every state of a run
Budget ==
    /\ meter.provider_calls <= max_retries * meter.wrapper_calls
    /\ meter.wrapper_calls <= meter.provider_calls + Cardinality({c \in CallIds : call[c].st = "ready" /\ call[c].calls = 0})
    /\ pc = "no_credential" =>
          (meter.wrapper_calls = 0 /\ meter.provider_calls = 0)
    /\ pc = "aborted" =>
          /\ NumTuples = 0
          /\ meter.wrapper_calls = 1
          /\ meter.provider_calls \in 1..3
          /\ Consumed = {TupCall}
    /\ pc = "done" =>
          /\ NumTuples >= 1
          /\ meter.wrapper_calls = NumTuples + 3
          /\ meter.provider_calls \in (NumTuples + 3)..(3 * (NumTuples + 3))
          /\ Consumed = RunCalls

\* C21, amended: when every provider call returns, every run ends: without
\* the credential at once, aborted after tuple generation, or done after
\* persistence.  A run that got T >= 1 tuples has entered the wrapper exactly
\* T+3 times, once for the tuples, once per tuple, once for the ambiguous and
\* once for the adversarial queries, and has invoked the provider between
\* T+3 and 3*(T+3) times; an aborted run got no tuple, entered the wrapper
\* once and invoked the provider at most 3 times.
C21_TerminatesWithinBudget ==
    /\ <>[]Ended
    /\ []Budget

\* a run with two tuples ended after 5 invocations of the wrapper, every one
\* of which succeeded on its third attempt: 15 invocations of the provider
C21_Witness ==
    /\ pc = "done"
    /\ NumTuples = 2
    /\ meter.wrapper_calls = 5
    /\ meter.provider_calls = 15
    /\ \A c \in RunCalls : outcome[c].st = "ok"

SystemPositions(q) == {k \in 1..Len(q) : q[k].role = "system"}
\* get_agent_response is between its entry and its return
InAgentCall == agent_pc \in {"ready", "completion"}

\* what a returned conversation looks like
OneSystemEntry ==
    agent_pc = "returned" =>
        /\ SystemPositions(updated_messages) = {1}
        /\ updated_messages[1] = SystemEntry
        /\ updated_messages[Len(updated_messages)].role = "assistant"
        /\ StartsWithSystem(messages) =>
              /\ Len(updated_messages) = Len(messages) + 1
              /\ Front(updated_messages) = messages
        /\ ~StartsWithSystem(messages) =>
              /\ Len(updated_messages) = Len(messages) + 2
              /\ Front(Tail(updated_messages)) = messages

\* a step of get_agent_response leaves the caller's list as it was
InputUntouched == InAgentCall => messages' = messages

\* C22: in a conversation that starts without a system entry and feeds every
\* result back with further user entries, every returned list has exactly
\* one system entry, the first; every call after the first returns its input
\* plus the assistant reply, one entry more; and no call changes the list it
\* was given, also when current_messages is that very list.
C22_FeedBackKeepsOneSystem ==
    /\ []OneSystemEntry
    /\ [][InputUntouched]_vars

\* the second call of a conversation has returned: it worked on the
\* caller's own list, which still ends with the user entry, and returned
\* five entries
C22_Witness ==
    /\ agent_pc = "returned"
    /\ same_object
    /\ Len(messages) = 4
    /\ messages[1] = SystemEntry
    /\ messages[4].role = "user"
    /\ Len(updated_messages) = 5
    /\ SystemPositions(updated_messages) = {1}

=============================================================================
